---- MODULE Spec2Model ----
(***************************************************************************)
(* The inlay hint cache of the editor (crates/editor/src/inlay_cache.rs):  *)
(* the cache state, the fetch coordinator (fetch_inlays), the merge of a   *)
(* fetched batch (apply_fetch_inlays), the settings filter                 *)
(* (apply_settings) and clear.                                             *)
(***************************************************************************)
EXTENDS Integers, Sequences, FiniteSets, TLC

(***************************************************************************)
(* Bounds of the model.                                                    *)
(***************************************************************************)
\* buffer paths are 1..MaxBuffer
MaxBuffer == 2
\* excerpt ids are 1..MaxExcerpt
MaxExcerpt == 3
\* anchor offsets are 1..MaxOffset
MaxOffset == 2
\* anchor timestamps (clock::Local) are 0..MaxStamp
MaxStamp == 1
\* every component of a buffer version (clock::Global) is in 0..MaxClock
MaxClock == 1
\* no more than MaxId inlay ids are allocated in a run
MaxId == 3
\* fetches in flight at the same time
MaxPending == 2
\* requests of one fetch
MaxRequests == 2
\* hints in one answer of the hint source
MaxResponse == 2

Buffers == 1..MaxBuffer
Excerpts == 1..MaxExcerpt
Replicas == {"a", "b"}

\* Option<InlayHintKind>: Some(Type), Some(Parameter), None
Kinds == {"Type", "Parameter", "Other"}
Labels == {"T1"}

\* clock::Global, a version vector
Global == [Replicas -> 0..MaxClock]

\* text::Anchor as far as the cache reads it: offset and timestamp
TextAnchor == [offset : 1..MaxOffset, timestamp : 0..MaxStamp]

\* project::InlayHint
InlayHint == [position : TextAnchor, kind : Kinds, label : Labels]

\* editor_settings::InlayHints
InlayHints == [show_type_hints : BOOLEAN, show_parameter_hints : BOOLEAN,
               show_other_hints : BOOLEAN]

(***************************************************************************)
(* Helpers: sequences and permutations (the iteration order of a HashMap   *)
(* is not specified: every loop over one takes some order of its keys).    *)
(***************************************************************************)
Range(s) == {s[i] : i \in DOMAIN s}

Orders(S) == {s \in [1..Cardinality(S) -> S] : Range(s) = S}

\* the elements of order that are in S, in the order of order
RECURSIVE Restrict(_, _)
Restrict(order, S) ==
    IF order = <<>> THEN <<>>
    ELSE IF Head(order) \in S THEN <<Head(order)>> \o Restrict(Tail(order), S)
    ELSE Restrict(Tail(order), S)

RECURSIVE Flatten(_)
Flatten(ss) == IF ss = <<>> THEN <<>> ELSE Head(ss) \o Flatten(Tail(ss))

(***************************************************************************)
(* clock::Global                                                           *)
(***************************************************************************)
\* self.changed_since(other): self has seen an operation that other has not
ChangedSince(self, other) == \E r \in Replicas : self[r] > other[r]

\* the partial order of version vectors
VersionLeq(v, w) == \A r \in Replicas : v[r] <= w[r]
VersionLess(v, w) == VersionLeq(v, w) /\ v # w

(***************************************************************************)
(* Anchors and the ordered position index                                  *)
(***************************************************************************)
\* MultiBufferSnapshot::anchor_in_excerpt
AnchorInExcerpt(excerpt_id, text_anchor) ==
    [excerpt_id |-> excerpt_id, text_anchor |-> text_anchor]

AnchorKeyOf(anchor) ==
    [offset |-> anchor.text_anchor.offset, version |-> anchor.text_anchor.timestamp]

\* derived Ord of AnchorKey: by offset, then by version
KeyLess(k, j) == k.offset < j.offset \/ (k.offset = j.offset /\ k.version < j.version)

\* OrderedByAnchorOffset::default
EmptyIndex == [k \in {} |-> k]

\* OrderedByAnchorOffset::add: BTreeMap::insert replaces the value of a present key
Add(index, anchor, t) ==
    LET key == AnchorKeyOf(anchor)
    IN  [k \in DOMAIN index \cup {key} |->
            IF k = key THEN [anchor |-> anchor, t |-> t] ELSE index[k]]

RECURSIVE SortedKeys(_)
SortedKeys(S) ==
    IF S = {} THEN <<>>
    ELSE LET least == CHOOSE k \in S : \A j \in S \ {k} : KeyLess(k, j)
         IN  <<least>> \o SortedKeys(S \ {least})

\* OrderedByAnchorOffset::ordered_elements / into_ordered_elements
OrderedElements(index) ==
    LET keys == SortedKeys(DOMAIN index)
    IN  [i \in 1..Len(keys) |-> index[keys[i]]]

\* every (anchor, t) of an index, as a set
Elements(index) == {index[k] : k \in DOMAIN index}

(***************************************************************************)
(* The cache: InlayCache { inlays_per_buffer, allowed_hint_kinds,          *)
(* next_inlay_id }.  inlays_per_buffer is a function from the cached       *)
(* buffer paths to BufferInlays { buffer_version, inlays_per_excerpts },   *)
(* inlays_per_excerpts a function from the excerpt ids that have an index  *)
(* to that index, whose payload t is [id, hint].                           *)
(***************************************************************************)
NoBuffers == [b \in {} |-> b]
NoExcerpts == [e \in {} |-> e]

\* fn allowed_inlay_hint_types
allowed_inlay_hint_types(inlay_hint_settings) ==
    (IF inlay_hint_settings.show_type_hints THEN {"Type"} ELSE {})
        \cup (IF inlay_hint_settings.show_parameter_hints THEN {"Parameter"} ELSE {})
        \cup (IF inlay_hint_settings.show_other_hints THEN {"Other"} ELSE {})

\* InlayCache::inlays_up_to_date
InlaysUpToDate(inlays, buffer_path, buffer_version, excerpt_id) ==
    IF buffer_path \notin DOMAIN inlays THEN FALSE
    ELSE LET buffer_inlays == inlays[buffer_path]
             buffer_up_to_date ==
                 \/ buffer_version = buffer_inlays.buffer_version
                 \/ ChangedSince(buffer_inlays.buffer_version, buffer_version)
         IN  buffer_up_to_date /\ excerpt_id \in DOMAIN buffer_inlays.inlays_per_excerpts

\* every cached (anchor, (id, hint)), in the order a loop over the two HashMaps
\* and each index takes
CachedElements(inlays, buffer_order, excerpt_order) ==
    LET OfBuffer(b) ==
            LET es == Restrict(excerpt_order[b], DOMAIN inlays[b].inlays_per_excerpts)
            IN  Flatten([i \in 1..Len(es) |->
                    OrderedElements(inlays[b].inlays_per_excerpts[es[i]])])
        bs == Restrict(buffer_order, DOMAIN inlays)
    IN  Flatten([i \in 1..Len(bs) |-> OfBuffer(bs[i])])

\* every cached (anchor, (id, hint)) as a set, and the ids the cache holds
CachedSet(inlays) ==
    UNION {UNION {Elements(inlays[b].inlays_per_excerpts[e]) :
                     e \in DOMAIN inlays[b].inlays_per_excerpts} : b \in DOMAIN inlays}

CachedIds(inlays) == {el.t.id : el \in CachedSet(inlays)}

(***************************************************************************)
(* apply_fetch_inlays.  A fetched excerpt is [some, inlays]: None is       *)
(* [some |-> FALSE], Some((range, index)) carries the index of raw hints   *)
(* (the offset range is not read by the merge).                            *)
(***************************************************************************)
NoneInlays == [some |-> FALSE, inlays |-> EmptyIndex]
SomeInlays(index) == [some |-> TRUE, inlays |-> index]

Stored(el, id) == [anchor |-> el.anchor, t |-> [id |-> id, hint |-> el.t]]
Inserted(el) == [id |-> el.t.id, anchor |-> el.anchor, hint |-> el.t.hint]

\* the loop of the retain closure, were a changed hint to be stored under the id
\* of the old one
RECURSIVE MergeJoinOldReusing(_, _, _, _, _)
MergeJoinOldReusing(old, news, hints_to_add, next, retain) ==
    LET stop == [news |-> news, hints_to_add |-> hints_to_add, next |-> next,
                 retain |-> retain]
    IN  IF news = <<>> THEN stop
        ELSE LET new == Head(news)
                 new_offset == new.anchor.text_anchor.offset
                 old_offset == old.anchor.text_anchor.offset
             IN  IF new_offset < old_offset
                 THEN MergeJoinOldReusing(old, Tail(news),
                          Append(hints_to_add, Stored(new, next)), next + 1, retain)
                 ELSE IF new_offset = old_offset
                 THEN IF new.t = old.t.hint
                      THEN MergeJoinOldReusing(old, Tail(news), hints_to_add, next, TRUE)
                      ELSE MergeJoinOldReusing(old, Tail(news),
                               Append(hints_to_add, Stored(new, old.t.id)), next, retain)
                 ELSE stop

\* the loop of the retain closure, were a new hint before the old one to be
\* passed over
RECURSIVE MergeJoinOldPassing(_, _, _, _, _)
MergeJoinOldPassing(old, news, hints_to_add, next, retain) ==
    LET stop == [news |-> news, hints_to_add |-> hints_to_add, next |-> next,
                 retain |-> retain]
    IN  IF news = <<>> THEN stop
        ELSE LET new == Head(news)
                 new_offset == new.anchor.text_anchor.offset
                 old_offset == old.anchor.text_anchor.offset
             IN  IF new_offset < old_offset
                 THEN MergeJoinOldPassing(old, Tail(news), hints_to_add, next, retain)
                 ELSE IF new_offset = old_offset
                 THEN IF new.t = old.t.hint
                      THEN MergeJoinOldPassing(old, Tail(news), hints_to_add, next, TRUE)
                      ELSE MergeJoinOldPassing(old, Tail(news),
                               Append(hints_to_add, Stored(new, next)), next + 1, retain)
                 ELSE stop

\* lines 261-301: the `while let` loop of the retain closure, for one old entry
RECURSIVE MergeJoinOld(_, _, _, _, _)
MergeJoinOld(old, news, hints_to_add, next, retain) ==
    LET stop == [news |-> news, hints_to_add |-> hints_to_add, next |-> next,
                 retain |-> retain]
    IN  IF news = <<>> THEN stop
        ELSE LET new == Head(news)
                 new_offset == new.anchor.text_anchor.offset
                 old_offset == old.anchor.text_anchor.offset
             IN  IF new_offset < old_offset
                 THEN MergeJoinOld(old, Tail(news),
                          Append(hints_to_add, Stored(new, next)), next + 1, retain)
                 ELSE IF new_offset = old_offset
                 THEN IF new.t = old.t.hint
                      THEN MergeJoinOld(old, Tail(news), hints_to_add, next, TRUE)
                      ELSE MergeJoinOld(old, Tail(news),
                               Append(hints_to_add, Stored(new, next)), next + 1, retain)
                 ELSE stop

\* lines 257-308: BTreeMap::retain over the old entries in key order; kept is the
\* set of the keys retained
RECURSIVE RetainExcerpt(_, _, _, _, _, _)
\* lines 303-306: the end of the closure for the old entry Head(olds), r the
\* outcome of its loop
Retained(olds, r, kept, to_remove) ==
    RetainExcerpt(Tail(olds), r.news, r.hints_to_add, r.next,
        IF r.retain THEN kept \cup {AnchorKeyOf(Head(olds).anchor)} ELSE kept,
        IF r.retain THEN to_remove ELSE Append(to_remove, Head(olds).t.id))

RetainExcerpt(olds, news, hints_to_add, next, kept, to_remove) ==
    IF olds = <<>>
    THEN [news |-> news, hints_to_add |-> hints_to_add, next |-> next,
          kept |-> kept, to_remove |-> to_remove]
    ELSE Retained(olds, MergeJoinOld(Head(olds), news, hints_to_add, next, FALSE),
                  kept, to_remove)

\* a run of new hints, were they all to get the same fresh id
AllocateAllSame(news, next) == [i \in 1..Len(news) |-> Stored(news[i], next)]

\* fresh ids for a run of new hints, in order
AllocateAll(news, next) == [i \in 1..Len(news) |-> Stored(news[i], next + i - 1)]

RECURSIVE AddAll(_, _)
AddAll(index, stored) ==
    IF stored = <<>> THEN index
    ELSE AddAll(Add(index, Head(stored).anchor, Head(stored).t), Tail(stored))

InsertedAll(stored) == [i \in 1..Len(stored) |-> Inserted(stored[i])]

\* lines 310-324: the excerpt after the retain.  joined is the outcome of the
\* retain (of no retain, for an excerpt that had no index), rest the entries of
\* the new hints it left
WriteExcerpt(st, buffer_path, excerpt_id, known, joined, rest) ==
    LET self_excerpts == st.inlays[buffer_path].inlays_per_excerpts
        retained == IF known
                    THEN [k \in joined.kept |-> self_excerpts[excerpt_id][k]]
                    ELSE EmptyIndex
        excerpts ==
            IF known \/ rest # <<>>
            THEN [e \in DOMAIN self_excerpts \cup {excerpt_id} |->
                     IF e = excerpt_id
                     THEN AddAll(AddAll(retained, joined.hints_to_add), rest)
                     ELSE self_excerpts[e]]
            ELSE self_excerpts
    IN  [inlays |-> [st.inlays EXCEPT ![buffer_path].inlays_per_excerpts = excerpts],
         next |-> joined.next + Len(rest),
         to_remove |-> st.to_remove \o joined.to_remove,
         to_insert |-> st.to_insert \o InsertedAll(joined.hints_to_add)
                           \o InsertedAll(rest)]

JoinedExcerpt(st, buffer_path, excerpt_id, known, joined) ==
    WriteExcerpt(st, buffer_path, excerpt_id, known, joined,
                 AllocateAll(joined.news, joined.next))

\* one excerpt of a buffer the cache knows, were a skipped excerpt to lose its index
MergeKnownExcerptDropping(st, old_inlays, buffer_path, buffer_version, excerpt_id, new_excerpt_inlays) ==
    IF ~new_excerpt_inlays.some
    THEN [st EXCEPT !.inlays[buffer_path].inlays_per_excerpts =
             [e \in DOMAIN @ \ {excerpt_id} |-> @[e]]]
    ELSE IF InlaysUpToDate(st.inlays, buffer_path, buffer_version, excerpt_id) THEN st
    ELSE IF excerpt_id \in DOMAIN old_inlays[buffer_path].inlays_per_excerpts
    THEN JoinedExcerpt(st, buffer_path, excerpt_id, TRUE,
             RetainExcerpt(
                 OrderedElements(st.inlays[buffer_path].inlays_per_excerpts[excerpt_id]),
                 OrderedElements(new_excerpt_inlays.inlays), <<>>, st.next, {}, <<>>))
    ELSE JoinedExcerpt(st, buffer_path, excerpt_id, FALSE,
             [news |-> OrderedElements(new_excerpt_inlays.inlays), hints_to_add |-> <<>>,
              next |-> st.next, kept |-> {}, to_remove |-> <<>>])

\* lines 229-325: one excerpt of a buffer the cache knows.  st is
\* [inlays, next, to_remove, to_insert]; old_inlays the clone of line 222
MergeKnownExcerpt(st, old_inlays, buffer_path, buffer_version, excerpt_id, new_excerpt_inlays) ==
    IF ~new_excerpt_inlays.some THEN st
    ELSE IF InlaysUpToDate(st.inlays, buffer_path, buffer_version, excerpt_id) THEN st
    ELSE IF excerpt_id \in DOMAIN old_inlays[buffer_path].inlays_per_excerpts
    THEN JoinedExcerpt(st, buffer_path, excerpt_id, TRUE,
             RetainExcerpt(
                 OrderedElements(st.inlays[buffer_path].inlays_per_excerpts[excerpt_id]),
                 OrderedElements(new_excerpt_inlays.inlays), <<>>, st.next, {}, <<>>))
    ELSE JoinedExcerpt(st, buffer_path, excerpt_id, FALSE,
             [news |-> OrderedElements(new_excerpt_inlays.inlays), hints_to_add |-> <<>>,
              next |-> st.next, kept |-> {}, to_remove |-> <<>>])

RECURSIVE MergeKnownBuffer(_, _, _, _, _, _)
MergeKnownBuffer(st, old_inlays, buffer_path, buffer_version, new_buffer_inlays, excerpts) ==
    IF excerpts = <<>> THEN st
    ELSE MergeKnownBuffer(
             MergeKnownExcerpt(st, old_inlays, buffer_path, buffer_version,
                               Head(excerpts), new_buffer_inlays[Head(excerpts)]),
             old_inlays, buffer_path, buffer_version, new_buffer_inlays, Tail(excerpts))

\* lines 327-353: a buffer the cache does not know.  acc is
\* [inlays_per_excerpts, next, to_insert]
RECURSIVE MergeUnknownBuffer(_, _, _)
\* lines 334-343: the entries of one fetched excerpt, stored under fresh ids
StoreUnknownExcerpt(acc, new_buffer_inlays, excerpts, stored) ==
    IF stored = <<>>
    THEN MergeUnknownBuffer(acc, new_buffer_inlays, Tail(excerpts))
    ELSE MergeUnknownBuffer(
             [inlays_per_excerpts |->
                  [e \in DOMAIN acc.inlays_per_excerpts \cup {Head(excerpts)} |->
                      IF e = Head(excerpts) THEN AddAll(EmptyIndex, stored)
                      ELSE acc.inlays_per_excerpts[e]],
              next |-> acc.next + Len(stored),
              to_insert |-> acc.to_insert \o InsertedAll(stored)],
             new_buffer_inlays, Tail(excerpts))

MergeUnknownBuffer(acc, new_buffer_inlays, excerpts) ==
    IF excerpts = <<>> THEN acc
    ELSE IF ~new_buffer_inlays[Head(excerpts)].some
    THEN MergeUnknownBuffer(acc, new_buffer_inlays, Tail(excerpts))
    ELSE StoreUnknownExcerpt(acc, new_buffer_inlays, excerpts,
             AllocateAll(OrderedElements(new_buffer_inlays[Head(excerpts)].inlays),
                         acc.next))

\* the store of a buffer the cache did not know, were it stamped with the empty version
InsertBufferUnstamped(st, buffer_path, buffer_version, acc) ==
    [inlays |->
         [b \in DOMAIN st.inlays \cup {buffer_path} |->
             IF b = buffer_path
             THEN [buffer_version |-> [r \in Replicas |-> 0],
                   inlays_per_excerpts |-> acc.inlays_per_excerpts]
             ELSE st.inlays[b]],
     next |-> acc.next,
     to_remove |-> st.to_remove,
     to_insert |-> acc.to_insert]

\* lines 346-352: the store of a buffer the cache did not know
InsertBuffer(st, buffer_path, buffer_version, acc) ==
    [inlays |->
         [b \in DOMAIN st.inlays \cup {buffer_path} |->
             IF b = buffer_path
             THEN [buffer_version |-> buffer_version,
                   inlays_per_excerpts |-> acc.inlays_per_excerpts]
             ELSE st.inlays[b]],
     next |-> acc.next,
     to_remove |-> st.to_remove,
     to_insert |-> acc.to_insert]

\* lines 226-355: the loop over the fetched buffers
RECURSIVE MergeBuffers(_, _, _, _, _)
MergeBuffers(st, old_inlays, fetched_inlays, buffers, excerpt_order) ==
    IF buffers = <<>> THEN st
    ELSE IF Head(buffers) \in DOMAIN old_inlays
    THEN MergeBuffers(
             MergeKnownBuffer(st, old_inlays, Head(buffers),
                 fetched_inlays[Head(buffers)].buffer_version,
                 fetched_inlays[Head(buffers)].inlays_per_excerpts,
                 Restrict(excerpt_order[Head(buffers)],
                          DOMAIN fetched_inlays[Head(buffers)].inlays_per_excerpts)),
             old_inlays, fetched_inlays, Tail(buffers), excerpt_order)
    ELSE MergeBuffers(
             InsertBuffer(st, Head(buffers), fetched_inlays[Head(buffers)].buffer_version,
                 MergeUnknownBuffer(
                     [inlays_per_excerpts |-> NoExcerpts, next |-> st.next,
                      to_insert |-> st.to_insert],
                     fetched_inlays[Head(buffers)].inlays_per_excerpts,
                     Restrict(excerpt_order[Head(buffers)],
                              DOMAIN fetched_inlays[Head(buffers)].inlays_per_excerpts))),
             old_inlays, fetched_inlays, Tail(buffers), excerpt_order)

\* lines 357-370: the ids of the buffers left in old_inlays, the filter of
\* to_insert, and the splice returned
FinishMerge(merged, allowed, dropped) ==
    [inlays_per_buffer |-> merged.inlays,
     next_inlay_id |-> merged.next,
     allocated |-> [i \in 1..Len(merged.to_insert) |-> merged.to_insert[i].id],
     splice |->
         [to_remove |-> merged.to_remove \o [i \in 1..Len(dropped) |-> dropped[i].t.id],
          to_insert |-> SelectSeq(merged.to_insert,
                                  LAMBDA ins : ins.hint.kind \in allowed)]]

\* InlayCache::apply_fetch_inlays: the cache after the call and the splice returned
ApplyFetchInlays(inlays, allowed, next, fetched_inlays, buffer_order, excerpt_order) ==
    FinishMerge(
        MergeBuffers([inlays |-> inlays, next |-> next, to_remove |-> <<>>,
                      to_insert |-> <<>>],
                     inlays, fetched_inlays,
                     Restrict(buffer_order, DOMAIN fetched_inlays), excerpt_order),
        allowed,
        CachedElements([b \in DOMAIN inlays \ DOMAIN fetched_inlays |-> inlays[b]],
                       buffer_order, excerpt_order))

\* lines 389-406: the scan of every cached hint
ScanSettings(cached, new_allowed_hint_kinds, removed_hint_kinds) ==
    [to_remove |->
         LET removed == SelectSeq(cached, LAMBDA el : el.t.hint.kind \in removed_hint_kinds)
         IN  [i \in 1..Len(removed) |-> removed[i].t.id],
     to_insert |->
         InsertedAll(SelectSeq(cached, LAMBDA el :
             /\ el.t.hint.kind \notin removed_hint_kinds
             /\ el.t.hint.kind \in new_allowed_hint_kinds))]

\* apply_settings, were it to drop from the stores the hints it hides
ApplySettingsDropping(inlays, allowed, next, inlay_hint_settings, buffer_order, excerpt_order) ==
    LET new_allowed_inlay_hint_types == allowed_inlay_hint_types(inlay_hint_settings)
        new_allowed_hint_kinds == new_allowed_inlay_hint_types \ allowed
        removed_hint_kinds == allowed \ new_allowed_inlay_hint_types
        Kept(index) ==
            [k \in {j \in DOMAIN index : index[j].t.hint.kind \notin removed_hint_kinds}
                |-> index[k]]
    IN  [inlays_per_buffer |->
             [b \in DOMAIN inlays |->
                 [buffer_version |-> inlays[b].buffer_version,
                  inlays_per_excerpts |->
                      [e \in DOMAIN inlays[b].inlays_per_excerpts |->
                          Kept(inlays[b].inlays_per_excerpts[e])]]],
         allowed_hint_kinds |-> new_allowed_hint_kinds,
         next_inlay_id |-> next,
         splice |-> ScanSettings(CachedElements(inlays, buffer_order, excerpt_order),
                                 new_allowed_hint_kinds, removed_hint_kinds)]

\* InlayCache::apply_settings: the cache after the call and the splice returned
ApplySettings(inlays, allowed, next, inlay_hint_settings, buffer_order, excerpt_order) ==
    LET new_allowed_inlay_hint_types == allowed_inlay_hint_types(inlay_hint_settings)
        new_allowed_hint_kinds == new_allowed_inlay_hint_types \ allowed
        removed_hint_kinds == allowed \ new_allowed_inlay_hint_types
    IN  [inlays_per_buffer |-> inlays,
         allowed_hint_kinds |-> new_allowed_hint_kinds,
         next_inlay_id |-> next,
         splice |-> ScanSettings(CachedElements(inlays, buffer_order, excerpt_order),
                                 new_allowed_hint_kinds, removed_hint_kinds)]

\* clear, were it to start the ids again
ClearResetting(inlays, next, buffer_order, excerpt_order) ==
    [inlays_per_buffer |-> NoBuffers,
     next_inlay_id |-> 0,
     ids |-> LET cached == CachedElements(inlays, buffer_order, excerpt_order)
             IN  [i \in 1..Len(cached) |-> cached[i].t.id]]

\* clear, were it to return the id of the first hint only
ClearFirstOnly(inlays, next, buffer_order, excerpt_order) ==
    [inlays_per_buffer |-> NoBuffers,
     next_inlay_id |-> next,
     ids |-> LET cached == CachedElements(inlays, buffer_order, excerpt_order)
             IN  [i \in 1..(IF cached = <<>> THEN 0 ELSE 1) |-> cached[i].t.id]]

\* InlayCache::clear: the cache after the call (the map is drained) and the ids
\* returned
Clear(inlays, next, buffer_order, excerpt_order) ==
    [inlays_per_buffer |-> NoBuffers,
     next_inlay_id |-> next,
     ids |-> LET cached == CachedElements(inlays, buffer_order, excerpt_order)
             IN  [i \in 1..Len(cached) |-> cached[i].t.id]]

(***************************************************************************)
(* fetch_inlays.  A request is a QueryInlaysRange as far as the cache      *)
(* reads it; a task is a request with the inlays_up_to_date the cache      *)
(* answered when the task was spawned (lines 103-107); a task result is    *)
(* Ok((request, Option<Vec<InlayHint>>)) or Err.                           *)
(***************************************************************************)
QueryInlaysRange == [buffer_path : Buffers, buffer_version : Global, excerpt_id : Excerpts]

\* lines 102-138: the tasks spawned for the requests, in order
SpawnTasks(inlays, inlay_fetch_ranges) ==
    [i \in 1..Len(inlay_fetch_ranges) |->
        [request |-> inlay_fetch_ranges[i],
         inlays_up_to_date |->
             InlaysUpToDate(inlays, inlay_fetch_ranges[i].buffer_path,
                            inlay_fetch_ranges[i].buffer_version,
                            inlay_fetch_ranges[i].excerpt_id)]]

NoneResponse == [some |-> FALSE, hints |-> <<>>]
SomeResponse(hints) == [some |-> TRUE, hints |-> hints]

\* lines 158-168: the fold of an answer into an index of raw hints
RECURSIVE FoldInlays(_, _, _)
FoldInlays(ordered_inlays, excerpt_id, excerpt_inlays) ==
    IF excerpt_inlays = <<>> THEN ordered_inlays
    ELSE LET inlay == Head(excerpt_inlays)
             anchor == AnchorInExcerpt(excerpt_id, inlay.position)
         IN  FoldInlays(Add(ordered_inlays, anchor, inlay), excerpt_id, Tail(excerpt_inlays))

\* the loop over the joined task results, were a failed task to count as one
\* that ended with "no change"
RECURSIVE InlayUpdatesCountingFailed(_, _)
InlayUpdatesCountingFailed(inlay_updates, task_results) ==
    IF task_results = <<>> THEN inlay_updates
    ELSE
      LET task_result == Head(task_results)
          request_key == task_result.request
          fetched == IF task_result.ok /\ task_result.response.some
                     THEN SomeInlays(FoldInlays(EmptyIndex, request_key.excerpt_id,
                                                task_result.response.hints))
                     ELSE NoneInlays
          path == request_key.buffer_path
          next_updates ==
              IF path \in DOMAIN inlay_updates
              THEN [inlay_updates EXCEPT ![path].inlays_per_excerpts =
                       [e \in DOMAIN @ \cup {request_key.excerpt_id} |->
                           IF e = request_key.excerpt_id THEN fetched ELSE @[e]]]
              ELSE [b \in DOMAIN inlay_updates \cup {path} |->
                       IF b = path
                       THEN [buffer_version |-> request_key.buffer_version,
                             inlays_per_excerpts |->
                                 [e \in {request_key.excerpt_id} |-> fetched]]
                       ELSE inlay_updates[b]]
      IN  InlayUpdatesCountingFailed(next_updates, Tail(task_results))

\* lines 151-183: the loop over the joined task results
RECURSIVE InlayUpdates(_, _)
InlayUpdates(inlay_updates, task_results) ==
    IF task_results = <<>> THEN inlay_updates
    ELSE
      LET task_result == Head(task_results)
          request_key == task_result.request
          fetched == IF task_result.response.some
                     THEN SomeInlays(FoldInlays(EmptyIndex, request_key.excerpt_id,
                                                task_result.response.hints))
                     ELSE NoneInlays
          path == request_key.buffer_path
          next_updates ==
              IF ~task_result.ok THEN inlay_updates
              ELSE IF path \in DOMAIN inlay_updates
              THEN [inlay_updates EXCEPT ![path].inlays_per_excerpts =
                       [e \in DOMAIN @ \cup {request_key.excerpt_id} |->
                           IF e = request_key.excerpt_id THEN fetched ELSE @[e]]]
              ELSE [b \in DOMAIN inlay_updates \cup {path} |->
                       IF b = path
                       THEN [buffer_version |-> request_key.buffer_version,
                             inlays_per_excerpts |->
                                 [e \in {request_key.excerpt_id} |-> fetched]]
                       ELSE inlay_updates[b]]
      IN  InlayUpdates(next_updates, Tail(task_results))

EmptySplice == [to_remove |-> <<>>, to_insert |-> <<>>]

OkNone == [ok |-> TRUE, response |-> NoneResponse]

\* lines 109-136: the results of the tasks of a fetch, given what the hint source
\* answers: a task that found its excerpt up to date makes no query and ends
\* with Ok((request, None))
TaskResults(fetch, answers) ==
    [i \in 1..Len(fetch) |->
        [request |-> fetch[i].request,
         inlays_up_to_date |-> fetch[i].inlays_up_to_date,
         ok |-> IF fetch[i].inlays_up_to_date THEN TRUE ELSE answers[i].ok,
         response |-> IF fetch[i].inlays_up_to_date THEN NoneResponse
                      ELSE answers[i].response]]

(***************************************************************************)
(* The state: the cache; the fetches in flight; the editor around the      *)
(* cache (config, the kinds its settings show, and view, the ids it        *)
(* displays); a record of the last call that reached the cache (op, what   *)
(* it was called with, arg, and the splice it returned) and of every id    *)
(* allocated so far (issued).                                              *)
(***************************************************************************)
VARIABLES inlays_per_buffer, allowed_hint_kinds, next_inlay_id,
          pending, config, view, issued, op, arg, splice

vars == <<inlays_per_buffer, allowed_hint_kinds, next_inlay_id,
          pending, config, view, issued, op, arg, splice>>

\* the fetches in flight: a function from the fetches to how many of each
NoFetches == [f \in {} |-> 0]

RECURSIVE SumOver(_, _)
SumOver(f, S) ==
    IF S = {} THEN 0
    ELSE LET x == CHOOSE y \in S : TRUE IN f[x] + SumOver(f, S \ {x})

InFlight(fetches) == SumOver(fetches, DOMAIN fetches)

Started(fetches, fetch) ==
    [f \in DOMAIN fetches \cup {fetch} |->
        IF f = fetch THEN (IF fetch \in DOMAIN fetches THEN fetches[fetch] + 1 ELSE 1)
        ELSE fetches[f]]

Finished(fetches, fetch) ==
    [f \in {g \in DOMAIN fetches : g # fetch \/ fetches[g] > 1} |->
        IF f = fetch THEN fetches[f] - 1 ELSE fetches[f]]

\* arg: of a fetch that ended, the task results, the batch, the version
\* recorded for each buffer cached before it and the fetches still in flight
\* when it ended; of apply_settings, the kinds the configuration shows, those
\* the editor's settings showed before (was) and the visible kinds of the cache
\* before (allowed)
NoArg == [tasks |-> <<>>, fetched |-> NoBuffers, versions |-> NoBuffers,
          in_flight |-> NoFetches, settings |-> {}, was |-> {}, allowed |-> {}]

\* the view after a splice: to_remove is applied before to_insert
ApplySplice(displayed, s) ==
    (displayed \ Range(s.to_remove)) \cup {s.to_insert[i].id : i \in DOMAIN s.to_insert}

(***************************************************************************)
(* The inputs of a run.  A universe U names the sets the inputs are drawn  *)
(* from: U.settings (the configurations of new and apply_settings),        *)
(* U.fetches (the request lists of fetch_inlays), U.answers (what the      *)
(* hint source answers a query) and U.in_flight (how many fetches may be   *)
(* in flight at once).                                                     *)
(***************************************************************************)
SeqsUpTo(S, n) == UNION {[1..k -> S] : k \in 0..n}

Err == [ok |-> FALSE, response |-> NoneResponse]
OkSome(hints) == [ok |-> TRUE, response |-> SomeResponse(hints)]

\* the orders a loop may take over the buffers of S, and over the excerpts of
\* each of them (excerpts_of[b] those of buffer b)
BufferOrders(S) == Orders(S)
ExcerptOrders(S, excerpts_of) ==
    {order \in [S -> UNION {Orders(excerpts_of[b]) : b \in S}] :
        \A b \in S : order[b] \in Orders(excerpts_of[b])}

CachedExcerpts(inlays, b) ==
    IF b \in DOMAIN inlays THEN DOMAIN inlays[b].inlays_per_excerpts ELSE {}

\* InlayCache::new
Init(U) ==
    /\ inlays_per_buffer = NoBuffers
    /\ \E inlay_hint_settings \in U.settings :
           /\ allowed_hint_kinds = allowed_inlay_hint_types(inlay_hint_settings)
           /\ config = allowed_inlay_hint_types(inlay_hint_settings)
    /\ next_inlay_id = 0
    /\ pending = NoFetches
    /\ view = {}
    /\ issued = <<>>
    /\ op = "new"
    /\ arg = NoArg
    /\ splice = EmptySplice

\* fetch_inlays, up to the spawn of the final task
FetchInlays(U) ==
    /\ InFlight(pending) < U.in_flight
    /\ \E inlay_fetch_ranges \in U.fetches :
           pending' = Started(pending, SpawnTasks(inlays_per_buffer, inlay_fetch_ranges))
    /\ UNCHANGED <<inlays_per_buffer, allowed_hint_kinds, next_inlay_id,
                   config, view, issued, op, arg, splice>>

\* lines 185-194: the cache after the final task of fetch, whose tasks ended
\* with task_results and joined to inlay_updates; applied is what
\* apply_fetch_inlays makes of inlay_updates
Updated(fetch, task_results, inlay_updates, applied) ==
    /\ DOMAIN inlay_updates # {} => applied.next_inlay_id <= MaxId
    /\ pending' = Finished(pending, fetch)
    /\ IF DOMAIN inlay_updates # {}
       THEN /\ inlays_per_buffer' = applied.inlays_per_buffer
            /\ next_inlay_id' = applied.next_inlay_id
            /\ issued' = issued \o applied.allocated
            /\ splice' = applied.splice
            /\ view' = ApplySplice(view, applied.splice)
            /\ op' = "merge"
       ELSE /\ UNCHANGED <<inlays_per_buffer, next_inlay_id, issued, view>>
            /\ splice' = EmptySplice
            /\ op' = "nothing"
    /\ arg' = [NoArg EXCEPT !.tasks = task_results, !.fetched = inlay_updates,
                            !.versions = [b \in DOMAIN inlays_per_buffer |->
                                             inlays_per_buffer[b].buffer_version],
                            !.in_flight = Finished(pending, fetch)]
    /\ UNCHANGED <<allowed_hint_kinds, config>>

Joined(fetch, task_results, inlay_updates) ==
    LET buffers == DOMAIN inlays_per_buffer \cup DOMAIN inlay_updates
        ExcerptsOf(b) ==
            CachedExcerpts(inlays_per_buffer, b) \cup
                (IF b \in DOMAIN inlay_updates
                 THEN DOMAIN inlay_updates[b].inlays_per_excerpts ELSE {})
    IN  \E buffer_order \in BufferOrders(buffers) :
        \E excerpt_order \in ExcerptOrders(buffers, [b \in buffers |-> ExcerptsOf(b)]) :
            Updated(fetch, task_results, inlay_updates,
                    ApplyFetchInlays(inlays_per_buffer, allowed_hint_kinds, next_inlay_id,
                                     inlay_updates, buffer_order, excerpt_order))

Settled(fetch, task_results) ==
    Joined(fetch, task_results, InlayUpdates(NoBuffers, task_results))

\* the final task of a fetch: lines 140-195
FetchDone(U) ==
    \E fetch \in DOMAIN pending :
    \E answers \in [1..Len(fetch) -> U.answers \cup {OkNone}] :
        /\ \A i \in 1..Len(fetch) :
               IF fetch[i].inlays_up_to_date THEN answers[i] = OkNone
               ELSE answers[i] \in U.answers
        /\ Settled(fetch, TaskResults(fetch, answers))

\* apply_settings returned applied
SettingsApplied(inlay_hint_settings, applied) ==
    /\ inlays_per_buffer' = applied.inlays_per_buffer
    /\ allowed_hint_kinds' = applied.allowed_hint_kinds
    /\ next_inlay_id' = applied.next_inlay_id
    /\ splice' = applied.splice
    /\ view' = ApplySplice(view, applied.splice)
    /\ config' = allowed_inlay_hint_types(inlay_hint_settings)
    /\ op' = "settings"
    /\ arg' = [NoArg EXCEPT !.settings = allowed_inlay_hint_types(inlay_hint_settings),
                            !.was = config, !.allowed = allowed_hint_kinds]
    /\ UNCHANGED <<pending, issued>>

\* a call of apply_settings
Settings(U) ==
    \E inlay_hint_settings \in U.settings :
    \E buffer_order \in BufferOrders(DOMAIN inlays_per_buffer) :
    \E excerpt_order \in ExcerptOrders(DOMAIN inlays_per_buffer,
                                       [b \in DOMAIN inlays_per_buffer |->
                                           CachedExcerpts(inlays_per_buffer, b)]) :
        SettingsApplied(inlay_hint_settings,
            ApplySettings(inlays_per_buffer, allowed_hint_kinds, next_inlay_id,
                          inlay_hint_settings, buffer_order, excerpt_order))

\* clear returned cleared.ids
Cleared(cleared) ==
    /\ inlays_per_buffer' = cleared.inlays_per_buffer
    /\ next_inlay_id' = cleared.next_inlay_id
    /\ splice' = [to_remove |-> cleared.ids, to_insert |-> <<>>]
    /\ view' = view \ Range(cleared.ids)
    /\ op' = "clear"
    /\ arg' = NoArg
    /\ UNCHANGED <<allowed_hint_kinds, pending, config, issued>>

\* a call of clear
ClearAll ==
    \E buffer_order \in BufferOrders(DOMAIN inlays_per_buffer) :
    \E excerpt_order \in ExcerptOrders(DOMAIN inlays_per_buffer,
                                       [b \in DOMAIN inlays_per_buffer |->
                                           CachedExcerpts(inlays_per_buffer, b)]) :
        Cleared(Clear(inlays_per_buffer, next_inlay_id, buffer_order, excerpt_order))

Next(U) == FetchInlays(U) \/ FetchDone(U) \/ Settings(U) \/ ClearAll

Version(a, b) == [r \in Replicas |-> IF r = "a" THEN a ELSE b]
At(offset, timestamp) == [offset |-> offset, timestamp |-> timestamp]

Settings3(type, parameter, other) ==
    [show_type_hints |-> type, show_parameter_hints |-> parameter,
     show_other_hints |-> other]
Hint(position, kind) == [position |-> position, kind |-> kind, label |-> "T1"]

\* an excerpt is an excerpt of one buffer
BufferOf(excerpt_id) == ((excerpt_id - 1) % MaxBuffer) + 1

Shown == Settings3(TRUE, TRUE, TRUE)

\* two buffers, three excerpts, one position: what a merge does to the buffers
\* and excerpts of a batch and to those it does not name
Universe ==
    [settings |-> {Shown},
     fetches |-> SeqsUpTo({r \in QueryInlaysRange :
                              /\ r.buffer_version = Version(0, 0)
                              /\ r.buffer_path = BufferOf(r.excerpt_id)},
                          MaxRequests),
     answers |-> {OkSome(<<>>), OkSome(<<Hint(At(1, 0), "Type")>>), Err},
     in_flight |-> 1]

Spec == Init(Universe) /\ [][Next(Universe)]_vars

\* one excerpt, hints that share an offset or a position: the merge join of an
\* excerpt
JoinUniverse ==
    [settings |-> {Shown},
     fetches |-> SeqsUpTo({r \in QueryInlaysRange :
                              /\ r.buffer_version \in {Version(0, 0), Version(1, 0)}
                              /\ r.buffer_path = 1 /\ r.excerpt_id = 1}, 1),
     answers |-> {OkSome(hints) :
                     hints \in SeqsUpTo({Hint(At(1, 0), "Type"), Hint(At(1, 1), "Type"),
                                         Hint(At(1, 0), "Parameter"), Hint(At(2, 0), "Type")},
                                        MaxResponse)},
     in_flight |-> 1]

SpecJoin == Init(JoinUniverse) /\ [][Next(JoinUniverse)]_vars

\* one excerpt, every version, fetches that overlap
VersionUniverse ==
    [settings |-> {Shown},
     fetches |-> SeqsUpTo({r \in QueryInlaysRange :
                              r.buffer_path = 1 /\ r.excerpt_id = 1}, 1),
     answers |-> {OkSome(<<>>), OkSome(<<Hint(At(1, 0), "Type")>>),
                  OkSome(<<Hint(At(1, 0), "Parameter")>>), OkNone, Err},
     in_flight |-> MaxPending]

SpecVersions == Init(VersionUniverse) /\ [][Next(VersionUniverse)]_vars

\* every configuration, over an excerpt that holds hints of several kinds
SettingsUniverse ==
    [settings |-> InlayHints,
     fetches |-> {<<[buffer_path |-> 1, buffer_version |-> Version(0, 0), excerpt_id |-> 1]>>},
     answers |-> {OkSome(hints) :
                     hints \in SeqsUpTo({Hint(At(1, 0), "Type"), Hint(At(1, 1), "Parameter"),
                                         Hint(At(2, 0), "Other"), Hint(At(2, 0), "Type")},
                                        MaxResponse)},
     in_flight |-> 1]

SpecSettings == Init(SettingsUniverse) /\ [][Next(SettingsUniverse)]_vars

(***************************************************************************)
(* Properties.  A step of the cache is told by what it does to the fetches *)
(* in flight: fetch_inlays adds one, the final task of a fetch takes one   *)
(* away, apply_settings and clear leave them alone.                        *)
(***************************************************************************)
FetchStarts == InFlight(pending') > InFlight(pending)
FetchEnds == InFlight(pending') < InFlight(pending)
MergeStep == FetchEnds /\ op' = "merge"
SettingsStep == pending' = pending /\ op' = "settings"

\* what the cache holds for excerpt e of buffer b, and the ids of these hints
ExcerptHints(inlays, b, e) ==
    IF b \in DOMAIN inlays /\ e \in DOMAIN inlays[b].inlays_per_excerpts
    THEN Elements(inlays[b].inlays_per_excerpts[e]) ELSE {}
ExcerptIds(inlays, b, e) == {el.t.id : el \in ExcerptHints(inlays, b, e)}
BufferIds(inlays, b) ==
    UNION {ExcerptIds(inlays, b, e) : e \in DOMAIN inlays[b].inlays_per_excerpts}
InsertedIds(s) == {s.to_insert[i].id : i \in DOMAIN s.to_insert}

\* the batch holds a fetched result (not "no change") for excerpt e of buffer b
Fetched(fetched_inlays, b, e) ==
    /\ b \in DOMAIN fetched_inlays
    /\ e \in DOMAIN fetched_inlays[b].inlays_per_excerpts
    /\ fetched_inlays[b].inlays_per_excerpts[e].some

\* C1: when the result of a fetch of excerpt e of buffer b at version V2 has been
\* merged into a cache in which b was unknown or recorded at a version below V1,
\* and the result of a fetch of e at V1 < V2 is merged next, the later merge
\* leaves the hints cached for e as they are and removes and inserts nothing of e.
StaleResultChangesNothing ==
    [][(op = "merge" /\ MergeStep) =>
        \A b \in Buffers : \A e \in Excerpts :
            (/\ Fetched(arg.fetched, b, e)
             /\ Fetched(arg'.fetched, b, e)
             /\ VersionLess(arg'.fetched[b].buffer_version, arg.fetched[b].buffer_version)
             /\ (b \in DOMAIN arg.versions
                    => VersionLess(arg.versions[b], arg'.fetched[b].buffer_version)))
            => /\ ExcerptHints(inlays_per_buffer', b, e) = ExcerptHints(inlays_per_buffer, b, e)
               /\ Range(splice'.to_remove) \cap ExcerptIds(inlays_per_buffer, b, e) = {}
               /\ InsertedIds(splice') \cap ExcerptIds(inlays_per_buffer', b, e) = {}]_vars

\* C2: when a batch is merged and the identical batch is merged next, the
\* second merge returns a splice with nothing to remove and nothing to insert.
SecondMergeEmpty ==
    [][(op = "merge" /\ MergeStep /\ arg'.fetched = arg.fetched)
           => splice' = EmptySplice]_vars

\* C3: every id allocated is greater than every id allocated before it, so none
\* is allocated twice, and the next-id counter stays above all of them, after
\* clear as well.
MonotonicIds ==
    /\ \A i, j \in DOMAIN issued : i < j => issued[i] < issued[j]
    /\ \A i \in DOMAIN issued : issued[i] < next_inlay_id

\* clear has emptied a cache whose hints had ids, and the counter is where it was
ClearedAfterIssuing ==
    /\ op = "clear"
    /\ splice.to_remove # <<>>
    /\ Len(issued) >= 2
    /\ next_inlay_id = Len(issued)

\* C4: when a fetched result for excerpt e of a known buffer b is merged, every
\* hint cached for e that the result holds at the same position with the same
\* content keeps its id, stays cached, and is neither removed nor inserted by
\* the splice.
SameContentKeepsId ==
    [][MergeStep =>
        \A b \in DOMAIN inlays_per_buffer : \A e \in Excerpts :
            Fetched(arg'.fetched, b, e) =>
                \A el \in ExcerptHints(inlays_per_buffer, b, e) :
                    [anchor |-> el.anchor, t |-> el.t.hint]
                            \in Elements(arg'.fetched[b].inlays_per_excerpts[e].inlays)
                    => /\ el \in ExcerptHints(inlays_per_buffer', b, e)
                       /\ el.t.id \notin Range(splice'.to_remove)
                       /\ el.t.id \notin InsertedIds(splice')]_vars

\* the ids of the cached hints whose kind is in kinds
IdsOfKinds(inlays, kinds) == {el.t.id : el \in {c \in CachedSet(inlays) : c.t.hint.kind \in kinds}}

\* C5: when the cache and the editor show the kinds S, apply_settings is called
\* with S less a kind k and then with S, the two splices leave the ids of the
\* cached hints of the kinds S displayed, the second splice inserts the cached
\* hints of kind k, each once, and nothing else, and no id is allocated.
HideThenShow ==
    [][(op = "settings" /\ SettingsStep) =>
        \A k \in arg.was :
            (/\ arg.allowed = arg.was
             /\ arg.settings = arg.was \ {k}
             /\ arg'.settings = arg.was)
            => LET shown == IdsOfKinds(inlays_per_buffer, arg.was)
                   hidden == IdsOfKinds(inlays_per_buffer, {k})
               IN  /\ ApplySplice(ApplySplice(shown, splice), splice') = shown
                   /\ InsertedIds(splice') = hidden
                   /\ Len(splice'.to_insert) = Cardinality(hidden)
                   /\ next_inlay_id' = next_inlay_id]_vars

\* C6: after a merge of a non-empty batch, every buffer cached before the merge
\* that is not a key of the batch has all its ids in to_remove and is no longer
\* a key of the cache.
AbsentBufferPurged ==
    [][MergeStep =>
        \A b \in DOMAIN inlays_per_buffer \ DOMAIN arg'.fetched :
            /\ BufferIds(inlays_per_buffer, b) \subseteq Range(splice'.to_remove)
            /\ b \notin DOMAIN inlays_per_buffer']_vars

\* the task results that did not fail
Succeeded(task_results) == SelectSeq(task_results, LAMBDA task_result : task_result.ok)

\* the cache and the splice that the batch fetched_inlays makes of the cache,
\* for some order of the loops
Outcomes(fetched_inlays) ==
    IF DOMAIN fetched_inlays = {}
    THEN {[inlays_per_buffer |-> inlays_per_buffer, splice |-> EmptySplice]}
    ELSE LET buffers == DOMAIN inlays_per_buffer \cup DOMAIN fetched_inlays
             ExcerptsOf(b) ==
                 CachedExcerpts(inlays_per_buffer, b) \cup
                     (IF b \in DOMAIN fetched_inlays
                      THEN DOMAIN fetched_inlays[b].inlays_per_excerpts ELSE {})
         IN  {[inlays_per_buffer |->
                   ApplyFetchInlays(inlays_per_buffer, allowed_hint_kinds, next_inlay_id,
                                    fetched_inlays, buffer_order, excerpt_order).inlays_per_buffer,
               splice |->
                   ApplyFetchInlays(inlays_per_buffer, allowed_hint_kinds, next_inlay_id,
                                    fetched_inlays, buffer_order, excerpt_order).splice] :
                 buffer_order \in BufferOrders(buffers),
                 excerpt_order \in ExcerptOrders(buffers, [b \in buffers |-> ExcerptsOf(b)])}

\* C7: when a query of a fetch fails and another succeeds, the fetch ends with a
\* splice, and the batch, the cache and the splice are those of the fetch without
\* the failed query.
FailureIsolated ==
    [][(/\ FetchEnds
        /\ \E i \in DOMAIN arg'.tasks : ~arg'.tasks[i].ok
        /\ \E i \in DOMAIN arg'.tasks : arg'.tasks[i].ok)
       => /\ op' \in {"merge", "nothing"}
          /\ arg'.fetched = InlayUpdates(NoBuffers, Succeeded(arg'.tasks))
          /\ [inlays_per_buffer |-> inlays_per_buffer', splice |-> splice']
                 \in Outcomes(InlayUpdates(NoBuffers, Succeeded(arg'.tasks)))]_vars

\* a fetch has ended in which the only query for a cached buffer failed and a
\* query for another buffer brought hints
OnlyQueryOfBufferFailed ==
    /\ op = "merge"
    /\ \E i, j \in DOMAIN arg.tasks :
           /\ ~arg.tasks[i].ok
           /\ arg.tasks[i].request.buffer_path \in DOMAIN arg.versions
           /\ \A n \in DOMAIN arg.tasks \ {i} :
                  arg.tasks[n].request.buffer_path # arg.tasks[i].request.buffer_path
           /\ arg.tasks[j].ok
           /\ arg.tasks[j].response.some
           /\ arg.tasks[j].response.hints # <<>>

\* C8: a request for (buffer b, excerpt e, version v) is skipped, that is, makes
\* no query and ends with "no change", exactly when the cache holds b with a
\* recorded version that is at least v in the order of versions and holds an
\* index for e.
SkippedIffNotBehind ==
    [][(FetchStarts =>
            \A fetch \in DOMAIN pending' :
                (fetch \notin DOMAIN pending \/ pending'[fetch] > pending[fetch]) =>
                    \A i \in DOMAIN fetch :
                        fetch[i].inlays_up_to_date <=>
                            /\ fetch[i].request.buffer_path \in DOMAIN inlays_per_buffer
                            /\ VersionLeq(fetch[i].request.buffer_version,
                                          inlays_per_buffer[fetch[i].request.buffer_path].buffer_version)
                            /\ fetch[i].request.excerpt_id \in
                                   DOMAIN inlays_per_buffer[fetch[i].request.buffer_path].inlays_per_excerpts)
        /\ (FetchEnds =>
                \A i \in DOMAIN arg'.tasks :
                    arg'.tasks[i].inlays_up_to_date =>
                        arg'.tasks[i].ok /\ ~arg'.tasks[i].response.some)]_vars

\* C9: after apply_settings the visible kinds of the cache are the kinds the
\* configuration shows.
VisibleKindsAreConfigured ==
    op = "settings" => allowed_hint_kinds = arg.settings

\* C10: apply_settings leaves the stores of the buffers and the next-id counter
\* as they are.
SettingsKeepStores ==
    [][SettingsStep => /\ inlays_per_buffer' = inlays_per_buffer
                       /\ next_inlay_id' = next_inlay_id]_vars

\* apply_settings has hidden hints that the cache still holds
HiddenHintsStored ==
    /\ op = "settings"
    /\ splice.to_remove # <<>>
    /\ Range(splice.to_remove) \subseteq CachedIds(inlays_per_buffer)
    /\ next_inlay_id > 0

\* the cached hints whose kind is in kinds
HintsOfKinds(inlays, kinds) == {el \in CachedSet(inlays) : el.t.hint.kind \in kinds}

\* C11: when the view displays the cached hints of the kinds the editor's
\* settings show (old_kinds), apply_settings returns as to_remove the ids of the
\* cached hints of the kinds in old_kinds less the new kinds, each once, and as
\* to_insert the cached hints of the kinds in the new kinds less old_kinds, each
\* once with its id and anchor, and nothing else.
SettingsSpliceIsKindDelta ==
    [][(SettingsStep /\ view = IdsOfKinds(inlays_per_buffer, config)) =>
        /\ Range(splice'.to_remove) = IdsOfKinds(inlays_per_buffer, config \ arg'.settings)
        /\ Len(splice'.to_remove)
               = Cardinality(IdsOfKinds(inlays_per_buffer, config \ arg'.settings))
        /\ Range(splice'.to_insert)
               = {Inserted(el) : el \in HintsOfKinds(inlays_per_buffer, arg'.settings \ config)}
        /\ Len(splice'.to_insert)
               = Cardinality(HintsOfKinds(inlays_per_buffer, arg'.settings \ config))]_vars

ClearStep == pending' = pending /\ op' = "clear"

\* C12: clear leaves the cache without a store, returns the ids stored before
\* the call, each once, and no other id, and leaves the visible kinds as they are.
ClearReturnsEveryId ==
    [][ClearStep =>
        /\ inlays_per_buffer' = NoBuffers
        /\ Range(splice'.to_remove) = CachedIds(inlays_per_buffer)
        /\ Len(splice'.to_remove) = Cardinality(CachedIds(inlays_per_buffer))
        /\ allowed_hint_kinds' = allowed_hint_kinds]_vars

\* clear has emptied a cache that held several hints while some kind was not
\* visible
ClearedSeveral ==
    /\ op = "clear"
    /\ inlays_per_buffer = NoBuffers
    /\ Len(splice.to_remove) >= 2
    /\ allowed_hint_kinds # Kinds

\* the slots of the cache: (buffer, excerpt, position) and the id stored there
CachedSlots(inlays) ==
    UNION {UNION {{[buffer_path |-> b, excerpt_id |-> e, key |-> k,
                    id |-> inlays[b].inlays_per_excerpts[e][k].t.id] :
                      k \in DOMAIN inlays[b].inlays_per_excerpts[e]} :
                  e \in DOMAIN inlays[b].inlays_per_excerpts} : b \in DOMAIN inlays}

\* C13: in every state each id is in at most one (buffer, excerpt, position)
\* slot of the cache, and every id in the cache is below the next-id counter.
CachedIdsUnique ==
    /\ \A s, t \in CachedSlots(inlays_per_buffer) : s.id = t.id => s = t
    /\ \A s \in CachedSlots(inlays_per_buffer) : s.id < next_inlay_id

\* a merge has removed a hint of an excerpt, stored another under a fresh id and
\* left the cache with several hints
SeveralIdsAfterJoin ==
    /\ op = "merge"
    /\ splice.to_remove # <<>>
    /\ splice.to_insert # <<>>
    /\ Cardinality(CachedSlots(inlays_per_buffer)) >= 2

\* C14: in the splice of a merge every inserted hint has a kind that the
\* editor's settings show, every hint stored by the merge under a fresh id whose
\* kind the settings show is inserted, every id the merge took out of the cache
\* is in to_remove whatever its kind, and the hints stored of the other kinds
\* stay in the cache.
MergeSpliceFilteredByConfig ==
    [][MergeStep =>
        /\ \A i \in DOMAIN splice'.to_insert : splice'.to_insert[i].hint.kind \in config
        /\ \A el \in CachedSet(inlays_per_buffer') :
               (el.t.id >= next_inlay_id /\ el.t.hint.kind \in config)
                   => Inserted(el) \in Range(splice'.to_insert)
        /\ CachedIds(inlays_per_buffer) \ CachedIds(inlays_per_buffer')
               \subseteq Range(splice'.to_remove)]_vars

\* C15: after a merge, for a buffer that was cached and is a key of the batch,
\* the store is still there, and every excerpt of it that the batch does not
\* hold, or holds as "no change", has the index it had and none of its ids in
\* to_remove or to_insert.
OtherExcerptsUntouched ==
    [][MergeStep =>
        \A b \in DOMAIN inlays_per_buffer \cap DOMAIN arg'.fetched :
            /\ b \in DOMAIN inlays_per_buffer'
            /\ \A e \in DOMAIN inlays_per_buffer[b].inlays_per_excerpts :
                   ~Fetched(arg'.fetched, b, e) =>
                       /\ e \in DOMAIN inlays_per_buffer'[b].inlays_per_excerpts
                       /\ inlays_per_buffer'[b].inlays_per_excerpts[e]
                              = inlays_per_buffer[b].inlays_per_excerpts[e]
                       /\ ExcerptIds(inlays_per_buffer, b, e) \cap Range(splice'.to_remove) = {}
                       /\ ExcerptIds(inlays_per_buffer, b, e) \cap InsertedIds(splice') = {}]_vars

\* a merge has stored hints for one excerpt of a cached buffer while the batch
\* held another excerpt of it, which has hints, as "no change"
SkippedBesideFetched ==
    /\ op = "merge"
    /\ splice.to_insert # <<>>
    /\ \E b \in DOMAIN arg.versions \cap DOMAIN arg.fetched :
       \E e \in DOMAIN arg.fetched[b].inlays_per_excerpts :
           /\ ~arg.fetched[b].inlays_per_excerpts[e].some
           /\ ExcerptIds(inlays_per_buffer, b, e) # {}
           /\ \E x \in DOMAIN arg.fetched[b].inlays_per_excerpts : Fetched(arg.fetched, b, x)

\* the stored hints without their ids: (anchor, hint)
Unstored(elements) == {[anchor |-> el.anchor, t |-> el.t.hint] : el \in elements}

\* C16: after a merge, a buffer of the batch that had no store has one with the
\* version of the batch; for every fetched excerpt of it the hints stored are
\* the fetched hints, each under an id of its own that this merge allocated;
\* those of a visible kind are in to_insert and none of their ids is in to_remove.
UnknownBufferStored ==
    [][MergeStep =>
        \A b \in DOMAIN arg'.fetched \ DOMAIN inlays_per_buffer :
            /\ b \in DOMAIN inlays_per_buffer'
            /\ inlays_per_buffer'[b].buffer_version = arg'.fetched[b].buffer_version
            /\ \A e \in DOMAIN arg'.fetched[b].inlays_per_excerpts :
                   Fetched(arg'.fetched, b, e) =>
                       /\ Unstored(ExcerptHints(inlays_per_buffer', b, e))
                              = Elements(arg'.fetched[b].inlays_per_excerpts[e].inlays)
                       /\ Cardinality(ExcerptIds(inlays_per_buffer', b, e))
                              = Cardinality(Elements(arg'.fetched[b].inlays_per_excerpts[e].inlays))
                       /\ \A el \in ExcerptHints(inlays_per_buffer', b, e) :
                              /\ el.t.id >= next_inlay_id
                              /\ el.t.id \in Range(issued') \ Range(issued)
                              /\ el.t.hint.kind \in allowed_hint_kinds
                                     => Inserted(el) \in Range(splice'.to_insert)
                              /\ el.t.id \notin Range(splice'.to_remove)]_vars

\* a merge has stored a buffer the cache did not know, with several hints, at a
\* version other than the empty one
UnknownBufferMerged ==
    /\ op = "merge"
    /\ \E b \in DOMAIN arg.fetched \ DOMAIN arg.versions :
           /\ Cardinality(BufferIds(inlays_per_buffer, b)) >= 2
           /\ arg.fetched[b].buffer_version # [r \in Replicas |-> 0]

\* C17: when a merge applies a fetched result for an excerpt of a buffer that
\* was cached at an older version than that of the batch (so the excerpt was not
\* up to date), the version recorded for the buffer after the merge is the
\* version of the batch, and a request for the excerpt at that version is then
\* up to date.
VersionStampAdvances ==
    [][MergeStep =>
        \A b \in DOMAIN inlays_per_buffer \cap DOMAIN arg'.fetched : \A e \in Excerpts :
            (/\ Fetched(arg'.fetched, b, e)
             /\ VersionLess(inlays_per_buffer[b].buffer_version,
                            arg'.fetched[b].buffer_version)
             /\ ~InlaysUpToDate(inlays_per_buffer, b, arg'.fetched[b].buffer_version, e))
            => /\ inlays_per_buffer'[b].buffer_version = arg'.fetched[b].buffer_version
               /\ InlaysUpToDate(inlays_per_buffer', b, arg'.fetched[b].buffer_version, e)]_vars

\* C18: when a merge applies a fetched result for an excerpt of a cached buffer
\* (the excerpt was not up to date), the hints stored for the excerpt afterwards
\* are the fetched hints, one entry each; every old hint that the fetched result
\* does not hold with the same content has its id in to_remove; and every fetched
\* hint that the excerpt did not hold with the same content is stored under an id
\* allocated by this merge, which no old hint carries.
JoinResultIsFetched ==
    [][MergeStep =>
        \A b \in DOMAIN inlays_per_buffer \cap DOMAIN arg'.fetched : \A e \in Excerpts :
            (/\ Fetched(arg'.fetched, b, e)
             /\ ~InlaysUpToDate(inlays_per_buffer, b, arg'.fetched[b].buffer_version, e))
            => /\ Unstored(ExcerptHints(inlays_per_buffer', b, e))
                      = Elements(arg'.fetched[b].inlays_per_excerpts[e].inlays)
               /\ Cardinality(ExcerptHints(inlays_per_buffer', b, e))
                      = Cardinality(Elements(arg'.fetched[b].inlays_per_excerpts[e].inlays))
               /\ \A old \in ExcerptHints(inlays_per_buffer, b, e) :
                      [anchor |-> old.anchor, t |-> old.t.hint]
                              \notin Elements(arg'.fetched[b].inlays_per_excerpts[e].inlays)
                          => old.t.id \in Range(splice'.to_remove)
               /\ \A el \in ExcerptHints(inlays_per_buffer', b, e) :
                      [anchor |-> el.anchor, t |-> el.t.hint]
                              \notin Unstored(ExcerptHints(inlays_per_buffer, b, e))
                          => /\ el.t.id >= next_inlay_id
                             /\ el.t.id \in Range(issued') \ Range(issued)
                             /\ el.t.id \notin CachedIds(inlays_per_buffer)
                             /\ el.t.id \notin Range(splice'.to_remove)]_vars

\* a merge has joined a fetched result with the index of an excerpt: it retained
\* a hint, removed one and stored one under a fresh id
JoinedRetainedRemovedAdded ==
    /\ op = "merge"
    /\ DOMAIN arg.versions \cap DOMAIN arg.fetched # {}
    /\ splice.to_remove # <<>>
    /\ splice.to_insert # <<>>
    /\ \E id \in CachedIds(inlays_per_buffer) :
           /\ id \notin InsertedIds(splice)
           /\ \A i \in DOMAIN splice.to_remove : id < splice.to_remove[i]

\* C19: when a merge applies a fetched result for excerpt e of buffer b (the
\* excerpt was not up to date; the buffer cached or not, the fetched list empty
\* or not), the store of b holds an index for e afterwards.
AppliedExcerptIndexed ==
    [][MergeStep =>
        \A b \in DOMAIN arg'.fetched : \A e \in Excerpts :
            (/\ Fetched(arg'.fetched, b, e)
             /\ ~InlaysUpToDate(inlays_per_buffer, b, arg'.fetched[b].buffer_version, e))
            => /\ b \in DOMAIN inlays_per_buffer'
               /\ e \in DOMAIN inlays_per_buffer'[b].inlays_per_excerpts]_vars

\* C20: when two fetches of excerpt e of buffer b at the same version were in
\* flight together, both queried the hint source and both results are merged,
\* one right after the other, the second merge changes nothing for e: the hints
\* stored for e stay as they are, none of them carries an id allocated by the
\* second merge, and its splice neither removes nor inserts a hint of e.
SecondOfOverlappingFetchesSkipped ==
    [][(op = "merge" /\ MergeStep) =>
        \A b \in DOMAIN arg.fetched \cap DOMAIN arg'.fetched : \A e \in Excerpts :
            (/\ Fetched(arg.fetched, b, e)
             /\ Fetched(arg'.fetched, b, e)
             /\ arg.fetched[b].buffer_version = arg'.fetched[b].buffer_version
             /\ \E fetch \in DOMAIN pending \cap DOMAIN arg.in_flight :
                    pending' = Finished(pending, fetch))
            => /\ ExcerptHints(inlays_per_buffer', b, e) = ExcerptHints(inlays_per_buffer, b, e)
               /\ ExcerptIds(inlays_per_buffer', b, e) \cap (Range(issued') \ Range(issued)) = {}
               /\ Range(splice'.to_remove) \cap ExcerptIds(inlays_per_buffer, b, e) = {}
               /\ InsertedIds(splice') \cap ExcerptIds(inlays_per_buffer', b, e) = {}]_vars

\* C21: in every state reached from an empty cache and an empty view, where the
\* view has applied every splice returned (removals, then insertions; the ids of
\* clear as removals), the ids displayed are exactly the ids of the cached hints
\* whose kind the most recently applied configuration shows.
ViewShowsConfiguredCached == view = IdsOfKinds(inlays_per_buffer, config)

\* the ids a splice inserts, in order
InsertedSeq(s) == [i \in DOMAIN s.to_insert |-> s.to_insert[i].id]
Injective(seq) == \A i, j \in DOMAIN seq : seq[i] = seq[j] => i = j

\* C22: the splice returned by the last apply_fetch_inlays or apply_settings holds
\* no id twice in to_remove, no id twice in to_insert, and no id in both.
SpliceWellFormed ==
    op \in {"merge", "settings"} =>
        /\ Injective(splice.to_remove)
        /\ Injective(InsertedSeq(splice))
        /\ Range(splice.to_remove) \cap InsertedIds(splice) = {}

\* a merge returned a splice that removes several hints and inserts some
SpliceRemovesSeveralAndInserts ==
    /\ op = "merge"
    /\ Len(splice.to_remove) >= 2
    /\ Len(splice.to_insert) >= 1

====
